---- MODULE Spec2Model ----
(***************************************************************************)
(* A model of now-client (src/src/index.js): the client object built by   *)
(* Now(token), its request pipeline (handleRequest, handleError,          *)
(* handleCallback) and the endpoint methods that call it.                 *)
(*                                                                         *)
(* JavaScript values are tagged records, so that truthiness, typeof,      *)
(* property access and string conversion are computed as the language     *)
(* computes them.  The HTTP transport (request-promise-native) is the     *)
(* environment: it settles every request it was handed, once, with a      *)
(* response body or with a failure object.                                *)
(*                                                                         *)
(* The fields of every record are written in one fixed order, the order   *)
(* in which the module first names them: TLC keeps records in that order. *)
(***************************************************************************)
EXTENDS Integers, Sequences, FiniteSets

VARIABLES client, construction, calls

vars == <<client, construction, calls>>

(***************************************************************************)
(* JavaScript values                                                       *)
(***************************************************************************)
Undefined == [kind |-> "undefined"]
Null == [kind |-> "null"]
Str(s) == [kind |-> "string", s |-> s]
Bool(b) == [kind |-> "boolean", b |-> b]
Fn(id) == [kind |-> "function", id |-> id]
Arr(items) == [kind |-> "array", items |-> items]
Obj(props) == [kind |-> "object", props |-> props]

\* typeof v
TypeOf(v) ==
  CASE v.kind = "undefined" -> "undefined"
    [] v.kind = "string" -> "string"
    [] v.kind = "boolean" -> "boolean"
    [] v.kind = "function" -> "function"
    [] OTHER -> "object"

\* ToBoolean(v): what `!v` and `v && ...` test
Truthy(v) ==
  CASE v.kind \in {"undefined", "null"} -> FALSE
    [] v.kind = "string" -> v.s # ""
    [] v.kind = "boolean" -> v.b
    [] OTHER -> TRUE

\* v[p] throws a TypeError exactly when v is undefined or null
Nullish(v) == v.kind \in {"undefined", "null"}

\* v[p] for a v that is not nullish: an own property, or undefined
Get(v, p) ==
  IF v.kind = "object" /\ p \in DOMAIN v.props THEN v.props[p] ELSE Undefined

\* An Error instance: err.toString() is "name: message"
ErrorObj(name, message) == Obj([name |-> Str(name), message |-> Str(message)])

TypeErrorOf(v, p) ==
  ErrorObj("TypeError", "Cannot read property '" \o p \o "' of " \o v.kind)

\* v interpolated into a template literal
Interp(v) ==
  CASE v.kind = "string" -> v.s
    [] v.kind = "undefined" -> "undefined"
    [] v.kind = "null" -> "null"
    [] v.kind = "boolean" -> IF v.b THEN "true" ELSE "false"
    [] v.kind = "function" -> "function " \o v.id \o "() {}"
    [] v.kind = "array" -> "array"
    [] OTHER -> "[object Object]"

\* err.toString() of an Error instance (Error.prototype.toString)
ToString(err) ==
  LET name == Get(err, "name")
      msg == Get(err, "message")
      n == IF name.kind = "undefined" THEN "Error" ELSE Interp(name)
      m == IF msg.kind = "undefined" THEN "" ELSE Interp(msg)
  IN  IF err.kind # "object" THEN Interp(err)
      ELSE IF n = "" THEN m
      ELSE IF m = "" THEN n
      ELSE n \o ": " \o m

(***************************************************************************)
(* ERROR: the fixed {code, message} pairs.  The backquotes around the      *)
(* parameter name in each message are written as single quotes: a TLA+    *)
(* string cannot hold a backquote.                                         *)
(***************************************************************************)
MISSING_ID == Obj([message |-> Str("Missing 'id' parameter"), code |-> Str("missing_id")])
MISSING_FILE_ID == Obj([message |-> Str("Missing 'fileId' parameter"), code |-> Str("missing_file_id")])
MISSING_BODY == Obj([message |-> Str("Missing 'body' parameter"), code |-> Str("missing_body")])
MISSING_CN == Obj([message |-> Str("Missing 'cn' parameter"), code |-> Str("missing_cn")])
MISSING_ALIAS == Obj([message |-> Str("Missing 'alias' parameter"), code |-> Str("missing_body")])
MISSING_NAME == Obj([message |-> Str("Missing 'name' parameter"), code |-> Str("missing_name")])
MISSING_VALUE == Obj([message |-> Str("Missing 'value' parameter"), code |-> Str("missing_value")])

(***************************************************************************)
(* The client: Now(token)                                                  *)
(***************************************************************************)
Timeout == 30000

Tokens == {"tokenA", "tokenB"}

\* this.token and the defaults given to request.defaults
NowClient(token) ==
  [token |-> token,
   request |-> [baseUrl |-> "https://api.zeit.co",
                timeout |-> Timeout,
                json |-> TRUE,
                headers |-> [Authorization |-> "Bearer " \o token]]]

\* What a construction may leave its caller with, besides NowClient(token):
\* nothing yet, the undefined that Now(...) returns without a token, and the
\* object that new Now(...) yields without one (the prototype's methods, no
\* token, no request)
Unbuilt == [kind |-> "unbuilt"]
BareInstance == <<>>
IsInstance(cl) == cl # Unbuilt /\ cl # Undefined
Usable(cl) == IsInstance(cl) /\ "request" \in DOMAIN cl

\* The sources of the token: the argument, process.env.NOW_TOKEN, and the
\* file ~/.now.json (NoFile: require throws; a file holding null: reading
\* .token throws)
NoFile == [kind |-> "nofile"]
TokenArgs == {Undefined, Str(""), Str("tokenA")}
EnvTokens == {Undefined, Str(""), Str("tokenEnv")}
ConfigFiles == {NoFile, Null, Obj(<<>>), Obj([token |-> Str("tokenFile")])}

NoTokenMessage ==
  "No token found! Supply it as argument or use the NOW_TOKEN env variable. "
    \o "'~/.now.json' will be used, if it's found in your home directory."

\* require(configPath).token: the value, or the exception of a missing file
\* or of a file that holds null
ReadConfig(file) ==
  IF file = NoFile
  THEN [thrown |-> ErrorObj("Error", "Cannot find module '~/.now.json'"),
        value |-> Undefined]
  ELSE IF Nullish(file)
  THEN [thrown |-> TypeErrorOf(file, "token"), value |-> Undefined]
  ELSE [thrown |-> Undefined, value |-> Get(file, "token")]

_getToken_FileFirst(env, file) ==
  LET read == ReadConfig(file)
  IN  IF read.thrown = Undefined /\ Truthy(read.value)
      THEN [token |-> read.value, thrown |-> Undefined, consulted |-> <<"file">>,
            log |-> <<>>]
      ELSE [token |-> env, thrown |-> Undefined,
            consulted |-> <<"file", "env">>,
            log |-> IF read.thrown = Undefined THEN <<>>
                    ELSE <<"Error: " \o ToString(read.thrown)>>]

_getToken_NoCatch(env, file) ==
  LET read == ReadConfig(file)
  IN  IF Truthy(env)
      THEN [token |-> env, thrown |-> Undefined, consulted |-> <<"env">>,
            log |-> <<>>]
      ELSE [token |-> IF read.thrown = Undefined THEN read.value ELSE env,
            thrown |-> read.thrown, consulted |-> <<"env", "file">>,
            log |-> <<>>]

\* _getToken(): the token, the sources read, what console.error printed and
\* the exception that leaves it (the catch leaves none)
_getToken(env, file) ==
  LET read == ReadConfig(file)
  IN  IF Truthy(env)
      THEN [token |-> env, thrown |-> Undefined, consulted |-> <<"env">>,
            log |-> <<>>]
      ELSE IF read.thrown # Undefined
      THEN [token |-> env, thrown |-> Undefined,
            consulted |-> <<"env", "file">>,
            log |-> <<"Error: " \o ToString(read.thrown)>>]
      ELSE [token |-> read.value, thrown |-> Undefined,
            consulted |-> <<"env", "file">>, log |-> <<>>]

Now_NoGuard(arg, env, file, withNew) ==
  LET got == IF arg = Undefined THEN _getToken(env, file)
             ELSE [token |-> arg, thrown |-> Undefined, consulted |-> <<>>,
                   log |-> <<>>]
  IN  [client |-> NowClient(Interp(got.token)),
       thrown |-> got.thrown,
       consulted |-> <<"argument">> \o got.consulted, log |-> got.log]

\* Now(token = _getToken()), called with or without new: the default is
\* evaluated only for an argument that is undefined; an exception of the
\* default leaves the caller without a result
Now(arg, env, file, withNew) ==
  LET got == IF arg = Undefined THEN _getToken(env, file)
             ELSE [token |-> arg, thrown |-> Undefined, consulted |-> <<>>,
                   log |-> <<>>]
      token == got.token
  IN  IF got.thrown # Undefined
      THEN [client |-> Undefined,
            thrown |-> got.thrown,
            consulted |-> <<"argument">> \o got.consulted, log |-> got.log]
      ELSE IF ~Truthy(token)
      THEN [client |-> IF withNew THEN BareInstance ELSE Undefined,
            thrown |-> Undefined,
            consulted |-> <<"argument">> \o got.consulted, log |-> Append(got.log, NoTokenMessage)]
      ELSE [client |-> NowClient(Interp(token)),
            thrown |-> Undefined,
            consulted |-> <<"argument">> \o got.consulted, log |-> got.log]

\* The construction: its inputs and what it did
NotConstructed ==
  [file |-> NoFile, thrown |-> Undefined, env |-> Undefined, consulted |-> <<>>,
   log |-> <<>>, arg |-> Undefined, withNew |-> FALSE,
   state |-> "none"]

Constructed(arg, env, file, withNew) ==
  LET made == Now(arg, env, file, withNew)
  IN  [file |-> file, thrown |-> made.thrown, env |-> env, consulted |-> made.consulted,
       log |-> made.log, arg |-> arg, withNew |-> withNew,
       state |-> "done"]

Construct ==
  /\ construction.state = "none"
  /\ \E arg \in TokenArgs, env \in EnvTokens, file \in ConfigFiles,
        withNew \in BOOLEAN :
       /\ client' = Now(arg, env, file, withNew).client
       /\ construction' = Constructed(arg, env, file, withNew)
  /\ UNCHANGED calls

(***************************************************************************)
(* One call of an endpoint method                                          *)
(*   pc        idle, inflight (request handed to the transport), then      *)
(*             (transport fulfilled, the .then handler is queued), catch   *)
(*             (the .catch handler is queued), done, threw                 *)
(*   returned  what the method call gave its caller: none yet, a promise,  *)
(*             or a synchronous exception                                  *)
(*   via       the helper the method body ended in: handleError or         *)
(*             handleRequest                                               *)
(*   sent      the request descriptions handed to this.request             *)
(*   outcome   how the transport settled the request                       *)
(*   pending   the value the queued handler will receive                   *)
(*   cbLog     the invocations of the callback, with their arguments       *)
(*   trace     the order of the events of the call                         *)
(***************************************************************************)
NoPromise == [value |-> Undefined, state |-> "none", settles |-> 0]
NewPromise == [value |-> Undefined, state |-> "pending", settles |-> 0]
NoOutcome == [kind |-> "none", value |-> Undefined]

IdleCall ==
  [thrown |-> Undefined, pc |-> "idle", method |-> "", args |-> <<>>, returned |-> "none",
   via |-> "", callback |-> Undefined, selector |-> Undefined,
   sent |-> <<>>, promise |-> NoPromise, outcome |-> NoOutcome,
   pending |-> Undefined, cbLog |-> <<>>, trace |-> <<>>,
   unhandled |-> FALSE]

\* resolve(data) of the promise's executor: settles a pending promise only
resolve(call, data) ==
  LET p == call.promise
  IN  [call EXCEPT !.promise = IF p.state = "pending"
                               THEN [value |-> data, state |-> "fulfilled",
                                     settles |-> p.settles + 1]
                               ELSE p,
                   !.trace = Append(@, "resolve")]

\* reject(err) of the promise's executor: settles a pending promise only
reject(call, err) ==
  LET p == call.promise
  IN  [call EXCEPT !.promise = IF p.state = "pending"
                               THEN [value |-> err, state |-> "rejected",
                                     settles |-> p.settles + 1]
                               ELSE p,
                   !.trace = Append(@, "reject")]

\* The caller's functions: which of them throw when called, and what
ThrowingFns == {"cbThrows"}
CallbackError == ErrorObj("Error", "callback failed")
Throws(callback) == TypeOf(callback) = "function" /\ callback.id \in ThrowingFns

\* handleCallback(callback, err, data)
handleCallback(call, callback, err, data) ==
  IF TypeOf(callback) = "function"
  THEN [call EXCEPT !.cbLog = Append(@, [args |-> <<err, data>>, fn |-> callback]),
                    !.trace = Append(@, "callback")]
  ELSE call

\* handleError(err, callback): the executor runs inside the method call; an
\* exception of the callback is caught by the Promise constructor, whose
\* reject is then without effect
handleError(call, err, callback) ==
  LET c0 == [call EXCEPT !.promise = NewPromise, !.callback = callback,
                         !.via = "handleError"]
      c1 == reject(c0, err)
      c2 == handleCallback(c1, callback, err, Undefined)
  IN  [c2 EXCEPT !.pc = "done", !.returned = "promise",
                 !.trace = Append(@, "return")]

\* handleRequest(config, callback, selector), up to the return of the
\* promise: the executor hands config to this.request; on an instance that
\* has no this.request the call of it throws inside the executor, which
\* rejects the promise with that exception
handleRequest(call, cl, config, callback, selector) ==
  IF "request" \notin DOMAIN cl
  THEN [reject([call EXCEPT !.promise = NewPromise, !.callback = callback,
                            !.via = "handleRequest", !.selector = selector],
               ErrorObj("TypeError", "this.request is not a function"))
          EXCEPT !.pc = "done", !.returned = "promise",
                 !.trace = Append(@, "return")]
  ELSE
  [call EXCEPT !.promise = NewPromise, !.callback = callback,
               !.via = "handleRequest", !.selector = selector,
               !.sent = Append(@, [config |-> config, defaults |-> cl.request]),
               !.pc = "inflight", !.returned = "promise",
               !.trace = @ \o <<"request", "return">>]

\* An exception raised by the method body itself
throwSync(call, error) ==
  [call EXCEPT !.pc = "threw", !.returned = "threw", !.thrown = error,
               !.trace = Append(@, "throw")]

\* What a method body does with its arguments
PlanError(err, callback) == [err |-> err, callback |-> callback, do |-> "handleError"]
PlanRequest(config, callback, selector) ==
  [callback |-> callback, selector |-> selector, config |-> config,
   do |-> "handleRequest"]
PlanThrow(error) == [error |-> error, do |-> "throw"]

Apply(call, cl, plan) ==
  CASE plan.do = "handleError" -> handleError(call, plan.err, plan.callback)
    [] plan.do = "handleRequest" ->
         handleRequest(call, cl, plan.config, plan.callback, plan.selector)
    [] OTHER -> throwSync(call, plan.error)

\* A method call on the client: the whole synchronous part
Invoke(c, method, args, plan) ==
  /\ IsInstance(client)
  /\ calls[c].pc = "idle"
  /\ calls' = [calls EXCEPT ![c] =
                 Apply([@ EXCEPT !.method = method, !.args = args], client, plan)]
  /\ UNCHANGED <<client, construction>>

(***************************************************************************)
(* The transport: settles a request in flight, once                        *)
(***************************************************************************)
Item(x) == Obj([uid |-> Str(x)])

\* The lists of a response body hold up to MaxItems elements
MaxItems == 2

RECURSIVE Rep(_)
Rep(n) == IF n = 0 THEN "" ELSE Rep(n - 1) \o "i"

Items(prefix, n) == Arr([i \in 1..n |-> Item(prefix \o Rep(i))])

\* A body that carries every envelope field, each with a value of its own
Body(n) ==
  Obj([uid |-> Str("u1"),
       deployments |-> Items("dpl_", n),
       domains |-> Items("dom_", n),
       records |-> Items("rec_", n),
       certs |-> Items("cert_", n),
       created |-> Str("2017-01-01T00:00:00.000Z"),
       aliases |-> Items("alias_", n),
       secrets |-> Items("sec_", n)])

\* What the transport fulfils with: the decoded body, which need not be an
\* envelope, nor an object, nor there at all
Responses ==
  {Body(n) : n \in 0..MaxItems} \cup {Item("u1"), Str("OK"), Null, Undefined}

FailureObj(name, message, data) ==
  Obj([name |-> Str(name), message |-> Str(message), data |-> data])

ApiError == Obj([code |-> Str("x")])

Failures ==
  { ErrorObj("RequestError", "Error: ETIMEDOUT"),
    FailureObj("StatusCodeError", "500", Str("plain text")),
    FailureObj("StatusCodeError", "500", Str("")),
    FailureObj("StatusCodeError", "500", Null),
    FailureObj("StatusCodeError", "403", Obj([err |-> ApiError, uid |-> Str("u1")])),
    FailureObj("StatusCodeError", "403", Obj([err |-> Null, uid |-> Str("u1")])),
    FailureObj("StatusCodeError", "404", Obj([message |-> Str("not found")])) }

TransportFulfil(c) ==
  /\ calls[c].pc = "inflight"
  /\ \E res \in Responses :
       calls' = [calls EXCEPT ![c].pc = "then",
                              ![c].outcome = [kind |-> "fulfilled", value |-> res],
                              ![c].pending = res]
  /\ UNCHANGED <<client, construction>>

TransportReject(c) ==
  /\ calls[c].pc = "inflight"
  /\ \E err \in Failures :
       calls' = [calls EXCEPT ![c].pc = "catch",
                              ![c].outcome = [kind |-> "rejected", value |-> err],
                              ![c].pending = err]
  /\ UNCHANGED <<client, construction>>

(***************************************************************************)
(* handleRequest: the handlers                                             *)
(***************************************************************************)
\* Select without the selection: the envelope is handed on whole
Select_KeepsEnvelope(res, selector) == res

\* Select without the test of the selector: res[selector] in every case
Select_NoTest(res, selector) == Get(res, Interp(selector))

\* const data = selector ? res[selector] : res
Select(res, selector) == IF Truthy(selector) THEN Get(res, selector.s) ELSE res

\* ErrData with the first two tiers in the other order
ErrData_DataFirst(err) ==
  IF Truthy(Get(err, "data")) THEN Get(err, "data") ELSE Str(ToString(err))

\* ErrData without the second tier
ErrData_NoDataTier(err) ==
  IF Truthy(Get(err, "data")) /\ Truthy(Get(Get(err, "data"), "err"))
  THEN Get(Get(err, "data"), "err")
  ELSE Str(ToString(err))

\* ErrData whose last tier hands on the failure object itself
ErrData_RawError(err) ==
  IF Truthy(Get(err, "data")) /\ Truthy(Get(Get(err, "data"), "err"))
  THEN Get(Get(err, "data"), "err")
  ELSE IF Truthy(Get(err, "data")) THEN Get(err, "data")
  ELSE err

\* The normalized error of the .catch handler
ErrData(err) ==
  IF Truthy(Get(err, "data")) /\ Truthy(Get(Get(err, "data"), "err"))
  THEN Get(Get(err, "data"), "err")
  ELSE IF Truthy(Get(err, "data")) THEN Get(err, "data")
  ELSE Str(ToString(err))

\* .then(res => ...): an exception of the selection or of the callback goes
\* to the .catch handler
ThenStep(call) ==
  LET res == call.pending
  IN  IF Truthy(call.selector) /\ Nullish(res)
      THEN [call EXCEPT !.pc = "catch",
                        !.pending = TypeErrorOf(res, call.selector.s)]
      ELSE LET data == Select(res, call.selector)
               c1 == resolve(call, data)
               c2 == handleCallback(c1, call.callback, Undefined, data)
           IN  IF Throws(call.callback)
               THEN [c2 EXCEPT !.pc = "catch", !.pending = CallbackError]
               ELSE [c2 EXCEPT !.pc = "done", !.pending = Undefined]

\* A .then handler that reads the response most recently delivered to the
\* client, whichever call it answers
ThenHandler_SharedResponse(c) ==
  /\ calls[c].pc = "then"
  /\ LET others == {d \in DOMAIN calls : d # c /\ calls[d].pc \in {"then", "catch"}}
         res == IF others = {} THEN calls[c].pending
                ELSE calls[CHOOSE d \in others : TRUE].pending
     IN  calls' = [calls EXCEPT ![c] = ThenStep([@ EXCEPT !.pending = res])]
  /\ UNCHANGED <<client, construction>>

ThenHandler(c) ==
  /\ calls[c].pc = "then"
  /\ calls' = [calls EXCEPT ![c] = ThenStep(@)]
  /\ UNCHANGED <<client, construction>>

\* A .catch handler that hands the request to the transport again
CatchStep_Retry(call) ==
  IF Len(call.sent) < 2 /\ call.outcome.kind = "rejected"
  THEN [call EXCEPT !.sent = Append(@, call.sent[1]), !.pc = "inflight",
                    !.outcome = NoOutcome, !.pending = Undefined]
  ELSE [reject(call, Str(ToString(call.pending))) EXCEPT
          !.pc = "done", !.pending = Undefined]

\* .catch(err => ...): an exception of the callback is left unhandled
CatchStep(call) ==
  LET errData == ErrData(call.pending)
      c1 == reject(call, errData)
      c2 == handleCallback(c1, call.callback, errData, Undefined)
  IN  [c2 EXCEPT !.pc = "done", !.pending = Undefined,
                 !.unhandled = Throws(call.callback)]

CatchHandler(c) ==
  /\ calls[c].pc = "catch"
  /\ calls' = [calls EXCEPT ![c] = CatchStep(@)]
  /\ UNCHANGED <<client, construction>>

(***************************************************************************)
(* The endpoint methods: what each does with its arguments                 *)
(***************************************************************************)
getDeployments(callback) ==
  PlanRequest([method |-> "get", url |-> "/now/deployments"], callback,
              Str("deployments"))

getDeployment(id, callback) ==
  IF ~Truthy(id) THEN PlanError(MISSING_ID, callback)
  ELSE PlanRequest([method |-> "get", url |-> "/now/deployments/" \o Interp(id)],
                   callback, Undefined)

createDeployment(body, callback) ==
  IF ~Truthy(body) THEN PlanError(MISSING_BODY, callback)
  ELSE PlanRequest([method |-> "post", url |-> "/now/deployments", body |-> body],
                   callback, Undefined)

deleteDeployment(id, callback) ==
  IF ~Truthy(id) THEN PlanError(MISSING_ID, callback)
  ELSE PlanRequest([method |-> "delete", url |-> "/now/deployments/" \o Interp(id)],
                   callback, Undefined)

getFiles(id, callback) ==
  IF ~Truthy(id) THEN PlanError(MISSING_ID, callback)
  ELSE PlanRequest([method |-> "get",
                    url |-> "/now/deployments/" \o Interp(id) \o "/files"], callback, Undefined)

\* getFile with its two checks in the other order
getFile_FileIdFirst(id, fileId, callback) ==
  IF ~Truthy(fileId) THEN PlanError(MISSING_FILE_ID, callback)
  ELSE IF ~Truthy(id) THEN PlanError(MISSING_ID, callback)
  ELSE PlanRequest([method |-> "get",
                    url |-> "/now/deployments/" \o Interp(id) \o "/files/"
                              \o Interp(fileId)], callback, Undefined)

getFile(id, fileId, callback) ==
  IF ~Truthy(id) THEN PlanError(MISSING_ID, callback)
  ELSE IF ~Truthy(fileId) THEN PlanError(MISSING_FILE_ID, callback)
  ELSE PlanRequest([method |-> "get",
                    url |-> "/now/deployments/" \o Interp(id) \o "/files/"
                              \o Interp(fileId)], callback, Undefined)

getDomains(callback) ==
  PlanRequest([method |-> "get", url |-> "/domains"], callback, Str("domains"))

\* typeof domain.name: reading .name of an undefined or null domain throws
addDomain(domain, callback) ==
  IF Nullish(domain) THEN PlanThrow(TypeErrorOf(domain, "name"))
  ELSE IF TypeOf(Get(domain, "name")) # "string"
  THEN PlanError(MISSING_NAME, callback)
  ELSE PlanRequest([method |-> "post", url |-> "/domains",
                    body |-> Obj([name |-> Get(domain, "name"),
                                  isExternal |-> Get(domain, "isExternalDNS")])],
                   callback, Undefined)

deleteDomain(name, callback) ==
  IF TypeOf(name) # "string" THEN PlanError(MISSING_NAME, callback)
  ELSE PlanRequest([method |-> "delete", url |-> "/domains/" \o Interp(name)],
                   callback, Undefined)

getDomainRecords(domain, callback) ==
  PlanRequest([method |-> "get",
               url |-> "/domains/" \o Interp(domain) \o "/records"], callback, Str("records"))

addDomainRecord(domain, recordData, callback) ==
  PlanRequest([method |-> "post",
               data |-> recordData, url |-> "/domains/" \o Interp(domain) \o "/records"], callback, Undefined)

deleteDomainRecord(domain, recordId, callback) ==
  PlanRequest([method |-> "delete",
               url |-> "/domains/" \o Interp(domain) \o "/records/"
                         \o Interp(recordId)], callback, Undefined)

\* getCertificates that takes its callback from the second argument only
getCertificates_NoSwap(cn, callback) ==
  LET url == IF TypeOf(cn) = "string" THEN "/now/certs/" \o Interp(cn)
             ELSE "/now/certs"
  IN  PlanRequest([method |-> "get", url |-> url], callback, Str("certs"))

getCertificates(cn, callback) ==
  LET url == IF TypeOf(cn) = "string" THEN "/now/certs/" \o Interp(cn)
             ELSE "/now/certs"
      _callback == IF TypeOf(cn) = "function" THEN cn ELSE callback
  IN  PlanRequest([method |-> "get", url |-> url], _callback, Str("certs"))

createCertificate(cn, callback) ==
  IF TypeOf(cn) # "string" THEN PlanError(MISSING_CN, cn)
  ELSE PlanRequest([method |-> "post", url |-> "/now/certs",
                    body |-> Obj([domains |-> Arr(<<cn>>)])],
                   callback, Undefined)

renewCertificate(cn, callback) ==
  IF TypeOf(cn) # "string" THEN PlanError(MISSING_CN, cn)
  ELSE PlanRequest([method |-> "post", url |-> "/now/certs",
                    body |-> Obj([domains |-> Arr(<<cn>>), renew |-> Bool(TRUE)])],
                   callback, Undefined)

\* replaceCertificate that takes its callback from the fifth argument only
replaceCertificate_FifthOnly(cn, cert, key, ca, callback) ==
  LET _ca == IF TypeOf(ca) = "string" THEN ca ELSE Str("")
  IN  PlanRequest([method |-> "put", url |-> "/now/certs",
                   body |-> Obj([domains |-> Arr(<<cn>>), cert |-> cert,
                                 key |-> key, ca |-> _ca])],
                  callback, Str("created"))

replaceCertificate(cn, cert, key, ca, callback) ==
  LET _ca == IF TypeOf(ca) = "string" THEN ca ELSE Str("")
      _callback == IF TypeOf(ca) = "function" THEN ca ELSE callback
  IN  PlanRequest([method |-> "put", url |-> "/now/certs",
                   body |-> Obj([domains |-> Arr(<<cn>>), cert |-> cert,
                                 key |-> key, ca |-> _ca])],
                  _callback, Str("created"))

deleteCertificate(cn, callback) ==
  IF TypeOf(cn) # "string" THEN PlanError(MISSING_CN, cn)
  ELSE PlanRequest([method |-> "delete", url |-> "/now/certs/" \o Interp(cn)],
                   callback, Undefined)

getAliases(id, callback) ==
  LET url == IF TypeOf(id) = "string"
             THEN "/now/deployments/" \o Interp(id) \o "/aliases"
             ELSE "/now/aliases"
      _callback == IF TypeOf(id) = "function" THEN id ELSE callback
  IN  PlanRequest([method |-> "get", url |-> url], _callback, Str("aliases"))

createAlias(id, alias, callback) ==
  IF ~Truthy(id) THEN PlanError(MISSING_ID, callback)
  ELSE IF ~Truthy(alias) THEN PlanError(MISSING_ALIAS, callback)
  ELSE PlanRequest([method |-> "post",
                    url |-> "/now/deployments/" \o Interp(id) \o "/aliases", body |-> Obj([alias |-> alias])],
                   callback, Undefined)

deleteAlias(id, callback) ==
  IF ~Truthy(id) THEN PlanError(MISSING_ID, callback)
  ELSE PlanRequest([method |-> "delete", url |-> "/now/aliases/" \o Interp(id)],
                   callback, Undefined)

getSecrets(callback) ==
  PlanRequest([method |-> "get", url |-> "/now/secrets"], callback, Str("secrets"))

createSecret(name, value, callback) ==
  IF ~Truthy(name) THEN PlanError(MISSING_NAME, callback)
  ELSE IF ~Truthy(value) THEN PlanError(MISSING_VALUE, callback)
  ELSE PlanRequest([method |-> "post", url |-> "/now/secrets",
                    body |-> Obj([name |-> name, value |-> value])],
                   callback, Undefined)

renameSecret(id, name, callback) ==
  IF ~Truthy(id) THEN PlanError(MISSING_ID, callback)
  ELSE IF ~Truthy(name) THEN PlanError(MISSING_NAME, callback)
  ELSE PlanRequest([method |-> "patch", url |-> "/now/secrets/" \o Interp(id),
                    body |-> Obj([name |-> name])], callback, Undefined)

deleteSecret(id, callback) ==
  IF ~Truthy(id) THEN PlanError(MISSING_ID, callback)
  ELSE PlanRequest([method |-> "delete", url |-> "/now/secrets/" \o Interp(id)],
                   callback, Undefined)

(***************************************************************************)
(* The arguments a caller may pass: absent (undefined), an empty string,   *)
(* a value of the documented type, and, where the method looks at the      *)
(* type of the argument, a function                                        *)
(***************************************************************************)
IdArgs == {Undefined, Str(""), Str("id1")}
FileIdArgs == {Undefined, Str("file1")}
BodyArgs == {Undefined, Obj([package |-> Str("{}")])}
NameArgs == {Undefined, Str(""), Str("name1")}
ValueArgs == {Undefined, Str("value1")}
AliasArgs == {Undefined, Str("alias1")}
DomainObjArgs ==
  {Undefined, Obj(<<>>), Obj([name |-> Str("example.com")]),
   Obj([name |-> Str("example.com"), isExternalDNS |-> Bool(TRUE)])}
DomainNameArgs == {Undefined, Str("example.com")}
RecordDataArgs == {Undefined, Obj([value |-> Str("alias.zeit.co"), type |-> Str("CNAME")])}
RecordIdArgs == {Undefined, Str("rec1")}
CnArgs == {Undefined, Str("example.com"), Fn("cb")}
CertArgs == {Undefined, Str("CERT")}
KeyArgs == {Undefined, Str("KEY")}
CaArgs == {Undefined, Str("CA"), Fn("cb"), Fn("cbThrows")}
CnOrCallbackArgs == {Undefined, Str("example.com"), Fn("cb"), Fn("cbThrows")}
IdOrCallbackArgs == {Undefined, Str("id1"), Fn("cb"), Fn("cbThrows")}
Callbacks == {Undefined, Fn("cb"), Fn("cbThrows"), Str("nofn")}

(***************************************************************************)
(* The calls: one action for each endpoint method                          *)
(***************************************************************************)
Call_getDeployments(c) ==
  \E callback \in Callbacks :
    Invoke(c, "getDeployments", [callback |-> callback],
           getDeployments(callback))

Call_getDeployment(c) ==
  \E id \in IdArgs, callback \in Callbacks :
    Invoke(c, "getDeployment", [id |-> id, callback |-> callback],
           getDeployment(id, callback))

Call_createDeployment(c) ==
  \E body \in BodyArgs, callback \in Callbacks :
    Invoke(c, "createDeployment", [callback |-> callback, body |-> body],
           createDeployment(body, callback))

Call_deleteDeployment(c) ==
  \E id \in IdArgs, callback \in Callbacks :
    Invoke(c, "deleteDeployment", [id |-> id, callback |-> callback],
           deleteDeployment(id, callback))

Call_getFiles(c) ==
  \E id \in IdArgs, callback \in Callbacks :
    Invoke(c, "getFiles", [id |-> id, callback |-> callback],
           getFiles(id, callback))

Call_getFile(c) ==
  \E id \in IdArgs, fileId \in FileIdArgs, callback \in Callbacks :
    Invoke(c, "getFile", [id |-> id, callback |-> callback, fileId |-> fileId],
           getFile(id, fileId, callback))

Call_getDomains(c) ==
  \E callback \in Callbacks :
    Invoke(c, "getDomains", [callback |-> callback],
           getDomains(callback))

Call_addDomain(c) ==
  \E domain \in DomainObjArgs, callback \in Callbacks :
    Invoke(c, "addDomain", [callback |-> callback, domain |-> domain],
           addDomain(domain, callback))

Call_deleteDomain(c) ==
  \E name \in NameArgs, callback \in Callbacks :
    Invoke(c, "deleteDomain", [name |-> name, callback |-> callback],
           deleteDomain(name, callback))

Call_getDomainRecords(c) ==
  \E domain \in DomainNameArgs, callback \in Callbacks :
    Invoke(c, "getDomainRecords", [callback |-> callback, domain |-> domain],
           getDomainRecords(domain, callback))

Call_addDomainRecord(c) ==
  \E domain \in DomainNameArgs, recordData \in RecordDataArgs, callback \in Callbacks :
    Invoke(c, "addDomainRecord", [callback |-> callback, domain |-> domain, recordData |-> recordData],
           addDomainRecord(domain, recordData, callback))

Call_deleteDomainRecord(c) ==
  \E domain \in DomainNameArgs, recordId \in RecordIdArgs, callback \in Callbacks :
    Invoke(c, "deleteDomainRecord", [callback |-> callback, domain |-> domain, recordId |-> recordId],
           deleteDomainRecord(domain, recordId, callback))

Call_getCertificates(c) ==
  \E cn \in CnOrCallbackArgs, callback \in Callbacks :
    Invoke(c, "getCertificates", [callback |-> callback, cn |-> cn],
           getCertificates(cn, callback))

Call_createCertificate(c) ==
  \E cn \in CnArgs, callback \in Callbacks :
    Invoke(c, "createCertificate", [callback |-> callback, cn |-> cn],
           createCertificate(cn, callback))

Call_renewCertificate(c) ==
  \E cn \in CnArgs, callback \in Callbacks :
    Invoke(c, "renewCertificate", [callback |-> callback, cn |-> cn],
           renewCertificate(cn, callback))

Call_replaceCertificate(c) ==
  \E cn \in CnArgs, cert \in CertArgs, key \in KeyArgs, ca \in CaArgs, callback \in Callbacks :
    Invoke(c, "replaceCertificate", [callback |-> callback, cn |-> cn, cert |-> cert, key |-> key, ca |-> ca],
           replaceCertificate(cn, cert, key, ca, callback))

Call_deleteCertificate(c) ==
  \E cn \in CnArgs, callback \in Callbacks :
    Invoke(c, "deleteCertificate", [callback |-> callback, cn |-> cn],
           deleteCertificate(cn, callback))

Call_getAliases(c) ==
  \E id \in IdOrCallbackArgs, callback \in Callbacks :
    Invoke(c, "getAliases", [id |-> id, callback |-> callback],
           getAliases(id, callback))

Call_createAlias(c) ==
  \E id \in IdArgs, alias \in AliasArgs, callback \in Callbacks :
    Invoke(c, "createAlias", [id |-> id, callback |-> callback, alias |-> alias],
           createAlias(id, alias, callback))

Call_deleteAlias(c) ==
  \E id \in IdArgs, callback \in Callbacks :
    Invoke(c, "deleteAlias", [id |-> id, callback |-> callback],
           deleteAlias(id, callback))

Call_getSecrets(c) ==
  \E callback \in Callbacks :
    Invoke(c, "getSecrets", [callback |-> callback],
           getSecrets(callback))

Call_createSecret(c) ==
  \E name \in NameArgs, value \in ValueArgs, callback \in Callbacks :
    Invoke(c, "createSecret", [name |-> name, value |-> value, callback |-> callback],
           createSecret(name, value, callback))

Call_renameSecret(c) ==
  \E id \in IdArgs, name \in NameArgs, callback \in Callbacks :
    Invoke(c, "renameSecret", [id |-> id, name |-> name, callback |-> callback],
           renameSecret(id, name, callback))

Call_deleteSecret(c) ==
  \E id \in IdArgs, callback \in Callbacks :
    Invoke(c, "deleteSecret", [id |-> id, callback |-> callback],
           deleteSecret(id, callback))

(***************************************************************************)
(* The specification: a client built with a token, and the calls made on   *)
(* it                                                                      *)
(***************************************************************************)
CallIds == {1}

Init ==
  /\ \E token \in Tokens :
       /\ client = Now(Str(token), Undefined, NoFile, TRUE).client
       /\ construction = Constructed(Str(token), Undefined, NoFile, TRUE)
  /\ calls = [c \in CallIds |-> IdleCall]

Call(c) ==
  \/ Call_getDeployments(c)
  \/ Call_getDeployment(c)
  \/ Call_createDeployment(c)
  \/ Call_deleteDeployment(c)
  \/ Call_getFiles(c)
  \/ Call_getFile(c)
  \/ Call_getDomains(c)
  \/ Call_addDomain(c)
  \/ Call_deleteDomain(c)
  \/ Call_getDomainRecords(c)
  \/ Call_addDomainRecord(c)
  \/ Call_deleteDomainRecord(c)
  \/ Call_getCertificates(c)
  \/ Call_createCertificate(c)
  \/ Call_renewCertificate(c)
  \/ Call_replaceCertificate(c)
  \/ Call_deleteCertificate(c)
  \/ Call_getAliases(c)
  \/ Call_createAlias(c)
  \/ Call_deleteAlias(c)
  \/ Call_getSecrets(c)
  \/ Call_createSecret(c)
  \/ Call_renameSecret(c)
  \/ Call_deleteSecret(c)

Next ==
  \E c \in CallIds :
    \/ Call(c)
    \/ TransportFulfil(c)
    \/ TransportReject(c)
    \/ ThenHandler(c)
    \/ CatchHandler(c)

Spec == Init /\ [][Next]_vars

(***************************************************************************)
(* The client from its construction on: Now(...) runs once, on any         *)
(* combination of the three sources of the token, and the result is then   *)
(* used for one call.  Every method is tried on a result that has no       *)
(* transport; on a working client the calls are those of the deployments.  *)
(***************************************************************************)
InitNow ==
  /\ client = Unbuilt
  /\ construction = NotConstructed
  /\ calls = [c \in CallIds |-> IdleCall]

CallOnUnusable(c) == ~Usable(client) /\ Call(c)

CallOnUsable(c) ==
  /\ Usable(client)
  /\ \/ Call_getDeployments(c)
     \/ Call_getDeployment(c)
     \/ Call_createDeployment(c)
     \/ Call_deleteDeployment(c)

NextNow ==
  \/ Construct
  \/ \E c \in CallIds :
       \/ CallOnUnusable(c)
       \/ CallOnUsable(c)
       \/ TransportFulfil(c)
       \/ TransportReject(c)
       \/ ThenHandler(c)
       \/ CatchHandler(c)

SpecNow == InitNow /\ [][NextNow]_vars

(***************************************************************************)
(* Two calls on one client, their requests in flight together: the         *)
(* transport answers them in either order and the handlers of the two run  *)
(* interleaved.                                                            *)
(***************************************************************************)
ConcurrentIds == {1, 2}

InitConcurrent ==
  /\ client = Now(Str("tokenA"), Undefined, NoFile, TRUE).client
  /\ construction = Constructed(Str("tokenA"), Undefined, NoFile, TRUE)
  /\ calls = [c \in ConcurrentIds |-> IdleCall]

NextConcurrent ==
  \E c \in ConcurrentIds :
    \/ Call_getDeployments(c)
    \/ Call_getDeployment(c)
    \/ TransportFulfil(c)
    \/ TransportReject(c)
    \/ ThenHandler(c)
    \/ CatchHandler(c)

SpecConcurrent == InitConcurrent /\ [][NextConcurrent]_vars

(***************************************************************************)
(* Properties                                                              *)
(***************************************************************************)
Started(call) == call.pc # "idle"

\* The .then handler, respectively the .catch handler of a transport
\* failure, has run
Fulfilled(call) == call.outcome.kind = "fulfilled" /\ call.pc # "then"
Failed(call) == call.outcome.kind = "rejected" /\ call.pc = "done"

\* The identifying parameters, and the methods whose leading parameter is
\* documented as optional
IdentifyingParams == {"id", "fileId", "body", "cn", "alias", "name", "value", "domain"}
OptionalLeading == {"getCertificates", "getAliases"}

ErrorFor(p) ==
  CASE p = "id" -> MISSING_ID
    [] p = "fileId" -> MISSING_FILE_ID
    [] p = "body" -> MISSING_BODY
    [] p = "cn" -> MISSING_CN
    [] p = "alias" -> MISSING_ALIAS
    [] p = "value" -> MISSING_VALUE
    [] OTHER -> MISSING_NAME

\* The identifying parameters a started call was made without
Absent(call) ==
  IF call.method \in OptionalLeading THEN {}
  ELSE {p \in DOMAIN call.args \cap IdentifyingParams : call.args[p] = Undefined}

\* The identifying parameters a call may report as missing: the absent
\* ones and the empty ones
Missing(call) ==
  Absent(call) \cup
    {p \in DOMAIN call.args \cap IdentifyingParams : call.args[p] = Str("")}

\* C1: every call made without a required identifying parameter has
\* returned a promise that is rejected with the ERROR pair of a missing
\* parameter.
C1_MissingParamRejects ==
  \A c \in DOMAIN calls :
    LET call == calls[c]
    IN  (call.pc \in {"done", "threw"} /\ Absent(call) # {}) =>
          /\ call.returned = "promise"
          /\ call.promise.state = "rejected"
          /\ call.promise.value \in {ErrorFor(p) : p \in Missing(call)}

\* C2: a call made without a required identifying parameter hands no
\* request to the transport.
C2_MissingParamSendsNothing ==
  \A c \in DOMAIN calls :
    (Started(calls[c]) /\ Absent(calls[c]) # {}) => Len(calls[c].sent) = 0

\* The named field of a response body, read off the body itself
EnvelopeField(body, name) ==
  IF body.kind = "object" /\ name \in DOMAIN body.props
  THEN body.props[name] ELSE Undefined

Selectors ==
  {"deployments", "domains", "records", "certs", "created", "aliases", "secrets"}

\* C3: when the transport fulfilled with a body and a selector was given,
\* the promise is fulfilled with body[selector], and the selector is one
\* of the seven envelope fields.
C3_SelectorStripsEnvelope ==
  \A c \in DOMAIN calls :
    LET call == calls[c]
        body == call.outcome.value
    IN  (Fulfilled(call) /\ call.selector.kind = "string" /\ ~Nullish(body)) =>
          /\ call.selector.s \in Selectors
          /\ call.promise.state = "fulfilled"
          /\ call.promise.value = EnvelopeField(body, call.selector.s)

C3_Witness ==
  \E c \in DOMAIN calls :
    /\ calls[c].method = "getDeployments"
    /\ calls[c].pc = "done"
    /\ calls[c].outcome = [kind |-> "fulfilled", value |-> Body(MaxItems)]
    /\ calls[c].promise.state = "fulfilled"
    /\ calls[c].promise.value.kind = "array"
    /\ Len(calls[c].promise.value.items) = MaxItems
    /\ calls[c].promise.value.items[1] = Obj([uid |-> Str("dpl_i")])

\* C4: when the transport fulfilled and no selector was given, the promise
\* is fulfilled with the body as the transport gave it.
C4_NoSelectorWholeBody ==
  \A c \in DOMAIN calls :
    LET call == calls[c]
    IN  (Fulfilled(call) /\ call.selector = Undefined) =>
          /\ call.promise.state = "fulfilled"
          /\ call.promise.value = call.outcome.value

C4_Witness ==
  \E c \in DOMAIN calls :
    /\ calls[c].method = "getDeployment"
    /\ calls[c].pc = "done"
    /\ calls[c].selector = Undefined
    /\ calls[c].outcome = [kind |-> "fulfilled", value |-> Body(MaxItems)]
    /\ calls[c].promise =
         [value |-> Body(MaxItems), state |-> "fulfilled", settles |-> 1]

\* The tiers of a failure object, read off the object itself
HasData(err) == "data" \in DOMAIN err.props /\ Truthy(err.props.data)
HasDataErr(err) ==
  /\ HasData(err)
  /\ err.props.data.kind = "object"
  /\ "err" \in DOMAIN err.props.data.props
  /\ Truthy(err.props.data.props.err)

\* C5: when the transport rejected with a failure that carries data.err,
\* the promise is rejected with that data.err.
C5_DataErrFirst ==
  \A c \in DOMAIN calls :
    LET call == calls[c]
        err == call.outcome.value
    IN  (Failed(call) /\ HasDataErr(err)) =>
          /\ call.promise.state = "rejected"
          /\ call.promise.value = err.props.data.props.err

C5_Witness ==
  \E c \in DOMAIN calls :
    /\ Failed(calls[c])
    /\ HasDataErr(calls[c].outcome.value)
    /\ "uid" \in DOMAIN calls[c].outcome.value.props.data.props
    /\ calls[c].promise = [value |-> ApiError, state |-> "rejected", settles |-> 1]

\* C6: when the transport rejected with a failure that carries data but no
\* data.err, the promise is rejected with that data.
C6_DataSecond ==
  \A c \in DOMAIN calls :
    LET call == calls[c]
        err == call.outcome.value
    IN  (Failed(call) /\ HasData(err) /\ ~HasDataErr(err)) =>
          /\ call.promise.state = "rejected"
          /\ call.promise.value = err.props.data

C6_Witness ==
  \E c \in DOMAIN calls :
    /\ Failed(calls[c])
    /\ calls[c].outcome.value.props.message = Str("500")
    /\ calls[c].promise = [value |-> Str("plain text"), state |-> "rejected",
                           settles |-> 1]

\* C7: when the transport rejected with a failure that carries no data, the
\* promise is rejected with the string "name: message" of the failure.
C7_BareFailureAsString ==
  \A c \in DOMAIN calls :
    LET call == calls[c]
        err == call.outcome.value
    IN  (Failed(call) /\ ~HasData(err)) =>
          /\ call.promise.state = "rejected"
          /\ call.promise.value =
               Str(err.props.name.s \o ": " \o err.props.message.s)

C7_Witness ==
  \E c \in DOMAIN calls :
    /\ Failed(calls[c])
    /\ "data" \notin DOMAIN calls[c].outcome.value.props
    /\ calls[c].sent[1].defaults.timeout = Timeout
    /\ calls[c].promise = [value |-> Str("RequestError: Error: ETIMEDOUT"),
                           state |-> "rejected",
                           settles |-> 1]

\* C8: every method call returns a promise to its caller; none throws.
C8_NoSynchronousThrow ==
  \A c \in DOMAIN calls : Started(calls[c]) => calls[c].returned = "promise"

\* C9: a call that passed the validation of its parameters has handed
\* exactly one request to the transport, in every state of its lifetime.
C9_ExactlyOneRequest ==
  \A c \in DOMAIN calls :
    /\ calls[c].via = "handleRequest" => Len(calls[c].sent) = 1
    /\ calls[c].via # "handleRequest" => Len(calls[c].sent) = 0

C9_Witness ==
  \E c \in DOMAIN calls :
    /\ calls[c].via = "handleRequest"
    /\ Failed(calls[c])
    /\ calls[c].promise.state = "rejected"
    /\ Len(calls[c].sent) = 1

\* A promise, once settled, keeps its state and its value, and a call that
\* returned a promise and has ended has settled it exactly once
PromiseOutcomeStable ==
  [][\A c \in DOMAIN calls :
       calls[c].promise.state \in {"fulfilled", "rejected"} =>
         calls'[c].promise = calls[c].promise]_vars

PromiseSettledOnce ==
  \A c \in DOMAIN calls :
    calls[c].pc = "done" =>
      /\ calls[c].promise.state \in {"fulfilled", "rejected"}
      /\ calls[c].promise.settles = 1

\* C10: every call that has ended has a promise that is fulfilled or
\* rejected, and that settled exactly once.
C10_EndsSettledOnce ==
  \A c \in DOMAIN calls :
    calls[c].pc \in {"done", "threw"} =>
      /\ calls[c].promise.state \in {"fulfilled", "rejected"}
      /\ calls[c].promise.settles = 1

(***************************************************************************)
(* Construction                                                            *)
(***************************************************************************)
\* a source yields a token when its value is truthy, as the code tests it
FileToken(file) == ReadConfig(file).value
NoCredential ==
  /\ construction.state = "done"
  /\ construction.arg = Undefined
  /\ ~Truthy(construction.env)
  /\ ~Truthy(FileToken(construction.file))

\* C11: a construction that finds no token in the argument, in NOW_TOKEN or
\* in ~/.now.json throws nothing, logs the error, and leaves undefined (call
\* as a function) or an object without token and without request (new); no
\* call on the result sends a request, so none carries an Authorization
\* header.
C11_NoCredentialNoClient ==
  NoCredential =>
    /\ construction.thrown = Undefined
    /\ construction.log # <<>>
    /\ construction.log[Len(construction.log)] = NoTokenMessage
    /\ client = IF construction.withNew THEN BareInstance ELSE Undefined
    /\ ~Usable(client)
    /\ IsInstance(client) => DOMAIN client \cap {"token", "request"} = {}
    /\ \A c \in DOMAIN calls :
         /\ calls[c].sent = <<>>
         /\ calls[c].pc \in {"idle", "done", "threw"}
         /\ calls[c].promise.state # "fulfilled"
         /\ calls[c].cbLog = <<>> \/ calls[c].via = "handleError"

C11_Witness ==
  /\ NoCredential
  /\ construction.withNew
  /\ construction.file = NoFile
  /\ \E c \in DOMAIN calls :
       /\ calls[c].method = "getDeployments"
       /\ calls[c].returned = "promise"
       /\ calls[c].promise.state = "rejected"
       /\ calls[c].promise.value
            = ErrorObj("TypeError", "this.request is not a function")

\* the first source, in the order argument, NOW_TOKEN, ~/.now.json, that
\* yields a token
FirstFound ==
  IF Truthy(construction.arg) THEN construction.arg
  ELSE IF Truthy(construction.env) THEN construction.env
  ELSE FileToken(construction.file)

Position(source) ==
  CHOOSE i \in 1..Len(construction.consulted) :
    construction.consulted[i] = source

Consulted(source) ==
  \E i \in 1..Len(construction.consulted) : construction.consulted[i] = source

\* C12: the argument is looked at first, NOW_TOKEN only after an argument
\* that gives no token, ~/.now.json only after an argument and a NOW_TOKEN
\* that give none, and the token of a working client is the first one found
\* in that order.
C12_ResolutionOrder ==
  construction.state = "done" =>
    /\ construction.consulted[1] = "argument"
    /\ Consulted("env") => ~Truthy(construction.arg)
    /\ Consulted("file") =>
         /\ ~Truthy(construction.arg)
         /\ Consulted("env")
         /\ Position("env") < Position("file")
         /\ ~Truthy(construction.env)
    /\ Usable(client) =>
         /\ Truthy(FirstFound)
         /\ client.token = Interp(FirstFound)
         /\ client.request.headers.Authorization
              = "Bearer " \o Interp(FirstFound)

C12_Witness ==
  /\ construction.state = "done"
  /\ construction.arg = Undefined
  /\ construction.env = Str("")
  /\ construction.consulted = <<"argument", "env", "file">>
  /\ Usable(client)
  /\ client.token = "tokenFile"
  /\ \E c \in DOMAIN calls : Len(calls[c].sent) = 1

(***************************************************************************)
(* Concurrent calls                                                        *)
(***************************************************************************)
\* The call run alone: the same method on the same arguments, answered by
\* the transport as this call was
PlanOf(method, args) ==
  IF method = "getDeployments" THEN getDeployments(args.callback)
  ELSE getDeployment(args.id, args.callback)

Alone(call) ==
  LET c0 == Apply([IdleCall EXCEPT !.method = call.method, !.args = call.args],
                  client, PlanOf(call.method, call.args))
      c1 == IF c0.pc # "inflight" THEN c0
            ELSE IF call.outcome.kind = "fulfilled"
            THEN ThenStep([c0 EXCEPT !.pc = "then", !.outcome = call.outcome,
                                     !.pending = call.outcome.value])
            ELSE CatchStep([c0 EXCEPT !.pc = "catch", !.outcome = call.outcome,
                                      !.pending = call.outcome.value])
  IN  IF c1.pc = "catch" THEN CatchStep(c1) ELSE c1

EachCallAsAlone ==
  \A c \in DOMAIN calls :
    calls[c].pc = "done" =>
      /\ calls[c].promise = Alone(calls[c]).promise
      /\ calls[c].cbLog = Alone(calls[c]).cbLog
      /\ calls[c].sent = Alone(calls[c]).sent

\* C13: with two calls in flight on one client, in every interleaving of
\* their responses and handlers, a call ends with the promise value and the
\* callback arguments it has when it runs alone on the same arguments and
\* the same response, and no step changes the client's token or its request
\* defaults.
C13_ConcurrentCallsIndependent ==
  /\ []EachCallAsAlone
  /\ [][client' = client]_vars

C13_Witness ==
  /\ calls[1].pc = "done"
  /\ calls[1].via = "handleRequest"
  /\ calls[1].promise.state = "fulfilled"
  /\ calls[1].promise.value = Body(1).props.deployments
  /\ calls[1].cbLog # <<>>
  /\ calls[2].pc = "catch"
  /\ calls[2].outcome.kind = "rejected"
  /\ calls[2].args # calls[1].args

(***************************************************************************)
(* Callbacks                                                               *)
(***************************************************************************)
\* The parameter ahead of callback that may hold the callback instead
LeadingCallback(call) ==
  CASE call.method = "getCertificates" -> call.args.cn
    [] call.method = "getAliases" -> call.args.id
    [] call.method = "replaceCertificate" -> call.args.ca
    [] OTHER -> Undefined

\* The callback the caller gave
SuppliedCallback(call) ==
  IF TypeOf(LeadingCallback(call)) = "function" THEN LeadingCallback(call)
  ELSE call.args.callback

Invocation(fn, err, data) == [args |-> <<err, data>>, fn |-> fn]

\* C14: at the end of a call that was given a function as callback, the
\* callback has been called with (undefined, data) if the promise is
\* fulfilled with data and with (errData) if it is rejected with errData,
\* and with nothing else; without a function as callback nothing has been
\* called.
C14_CallbackMirrorsPromise ==
  \A c \in DOMAIN calls :
    LET call == calls[c]
        cb == SuppliedCallback(call)
    IN  call.pc = "done" =>
          IF TypeOf(cb) = "function"
          THEN /\ call.promise.state = "fulfilled" =>
                    call.cbLog = <<Invocation(cb, Undefined, call.promise.value)>>
               /\ call.promise.state = "rejected" =>
                    call.cbLog = <<Invocation(cb, call.promise.value, Undefined)>>
          ELSE call.cbLog = <<>>

CnMethods == {"createCertificate", "renewCertificate", "deleteCertificate"}

\* C15: createCertificate, renewCertificate and deleteCertificate, called
\* with a cn that is not a string and with a function as callback, have
\* called that callback with the MISSING_CN error.
C15_MissingCnReachesCallback ==
  \A c \in DOMAIN calls :
    LET call == calls[c]
    IN  ( /\ call.method \in CnMethods
          /\ Started(call)
          /\ TypeOf(call.args.cn) # "string"
          /\ TypeOf(call.args.callback) = "function" ) =>
          call.cbLog = <<Invocation(call.args.callback, MISSING_CN, Undefined)>>

PayloadMethods ==
  {"createDeployment", "addDomain", "addDomainRecord", "createCertificate",
   "renewCertificate", "replaceCertificate", "createAlias", "createSecret",
   "renameSecret"}

\* C16: the request of a mutating method that takes a payload carries the
\* payload in its body field: the request description is url, method and
\* body, and nothing else.
C16_PayloadInBody ==
  \A c \in DOMAIN calls :
    (calls[c].method \in PayloadMethods /\ Len(calls[c].sent) > 0) =>
      DOMAIN calls[c].sent[1].config = {"url", "method", "body"}

(***************************************************************************)
(* Leading parameters that may be the callback                             *)
(***************************************************************************)
ListUrl(method) ==
  IF method = "getCertificates" THEN "/now/certs" ELSE "/now/aliases"

ScopedUrl(method, lead) ==
  IF method = "getCertificates" THEN "/now/certs/" \o lead.s
  ELSE "/now/deployments/" \o lead.s \o "/aliases"

ListField(method) ==
  IF method = "getCertificates" THEN "certs" ELSE "aliases"

\* What a call reports of a response body through promise and callback
Reports(call, data) ==
  /\ call.promise.state = "fulfilled"
  /\ call.promise.value = data
  /\ TypeOf(call.callback) = "function" =>
       /\ call.cbLog # <<>>
       /\ call.cbLog[1] = Invocation(call.callback, Undefined, data)

\* C17: getCertificates and getAliases send one GET: with a function as
\* first argument to the list URL, with that function as callback; with a
\* string as first argument to the URL scoped by it, with the second
\* argument as callback; and they report the certs, respectively aliases,
\* field of the response body.
C17_LeadingIdOrCallback ==
  \A c \in DOMAIN calls :
    LET call == calls[c]
        lead == LeadingCallback(call)
        body == call.outcome.value
    IN  (call.method \in OptionalLeading /\ Started(call)) =>
          /\ call.returned = "promise"
          /\ Len(call.sent) = 1
          /\ call.sent[1].config.method = "get"
          /\ TypeOf(lead) = "function" =>
               /\ call.callback = lead
               /\ call.sent[1].config.url = ListUrl(call.method)
          /\ TypeOf(lead) = "string" =>
               /\ call.callback = call.args.callback
               /\ call.sent[1].config.url = ScopedUrl(call.method, lead)
          /\ call.selector = Str(ListField(call.method))
          /\ (Fulfilled(call) /\ ~Nullish(body)) =>
               Reports(call, EnvelopeField(body, ListField(call.method)))

C17_Witness ==
  \E c \in DOMAIN calls :
    /\ calls[c].method = "getAliases"
    /\ calls[c].args.id = Fn("cb")
    /\ calls[c].args.callback = Undefined
    /\ calls[c].pc = "done"
    /\ calls[c].sent[1].config.url = "/now/aliases"
    /\ calls[c].promise.state = "fulfilled"
    /\ calls[c].promise.value = Body(1).props.aliases
    /\ calls[c].cbLog = <<Invocation(Fn("cb"), Undefined, Body(1).props.aliases)>>

\* C18: replaceCertificate sends one PUT to /now/certs with the body
\* {domains: [cn], ca, cert, key}, ca being the string given as fourth
\* argument and otherwise the empty string; its callback is the function
\* given as fourth argument, otherwise the fifth argument; it reports the
\* created field of the response body through the promise and through that
\* callback.
C18_ReplaceCertificate ==
  \A c \in DOMAIN calls :
    LET call == calls[c]
        args == call.args
        body == call.outcome.value
    IN  (call.method = "replaceCertificate" /\ Started(call)) =>
          /\ call.returned = "promise"
          /\ Len(call.sent) = 1
          /\ call.sent[1].config.method = "put"
          /\ call.sent[1].config.url = "/now/certs"
          /\ call.sent[1].config.body
               = Obj([domains |-> Arr(<<args.cn>>),
                      cert |-> args.cert,
                      key |-> args.key,
                      ca |-> IF TypeOf(args.ca) = "string" THEN args.ca
                             ELSE Str("")])
          /\ call.callback = SuppliedCallback(call)
          /\ (TypeOf(args.ca) = "function" \/ TypeOf(args.callback) = "function")
               => TypeOf(call.callback) = "function"
          /\ (Fulfilled(call) /\ ~Nullish(body)) =>
               Reports(call, EnvelopeField(body, "created"))

C18_Witness ==
  \E c \in DOMAIN calls :
    /\ calls[c].method = "replaceCertificate"
    /\ calls[c].args.ca = Fn("cb")
    /\ calls[c].args.callback = Undefined
    /\ calls[c].pc = "done"
    /\ calls[c].sent[1].config.body.props.ca = Str("")
    /\ calls[c].promise.state = "fulfilled"
    /\ calls[c].promise.value = Body(0).props.created
    /\ calls[c].cbLog = <<Invocation(Fn("cb"), Undefined, Body(0).props.created)>>

(***************************************************************************)
(* Several parameters missing                                              *)
(***************************************************************************)
\* The required parameters of the methods that check two, as declared
Declared(method) ==
  CASE method = "getFile" -> <<"id", "fileId">>
    [] method = "createAlias" -> <<"id", "alias">>
    [] method = "renameSecret" -> <<"id", "name">>
    [] method = "createSecret" -> <<"name", "value">>
    [] OTHER -> <<>>

\* A parameter is missing when it is falsy, as the code tests it
NotGiven(call) ==
  {i \in 1..Len(Declared(call.method)) : ~Truthy(call.args[Declared(call.method)[i]])}

FirstNotGiven(call) ==
  Declared(call.method)[CHOOSE i \in NotGiven(call) : \A j \in NotGiven(call) : i <= j]

\* C19: getFile, createAlias, renameSecret and createSecret, called with
\* required parameters missing, reject with the error of the first missing
\* one in the order of declaration, settle once, and tell the callback that
\* error and no other.
C19_FirstMissingOnly ==
  \A c \in DOMAIN calls :
    LET call == calls[c]
    IN  (Started(call) /\ NotGiven(call) # {}) =>
          /\ call.returned = "promise"
          /\ call.promise.state = "rejected"
          /\ call.promise.value = ErrorFor(FirstNotGiven(call))
          /\ call.promise.settles = 1
          /\ call.sent = <<>>
          /\ call.cbLog
               = IF TypeOf(call.args.callback) = "function"
                 THEN <<Invocation(call.args.callback,
                                   ErrorFor(FirstNotGiven(call)), Undefined)>>
                 ELSE <<>>

C19_Witness ==
  \E c \in DOMAIN calls :
    /\ calls[c].method = "getFile"
    /\ calls[c].args.id = Undefined
    /\ calls[c].args.fileId = Undefined
    /\ calls[c].args.callback = Fn("cb")
    /\ calls[c].pc = "done"
    /\ calls[c].promise.value = MISSING_ID
    /\ MISSING_ID # MISSING_FILE_ID
    /\ calls[c].cbLog = <<Invocation(Fn("cb"), MISSING_ID, Undefined)>>

(***************************************************************************)
(* Fulfilment by the transport                                             *)
(***************************************************************************)
\* C20: at the end of a call whose request the transport fulfilled, the
\* promise is fulfilled, whatever the response body and the selector.
C20_FulfilledStaysFulfilled ==
  \A c \in DOMAIN calls :
    (calls[c].pc = "done" /\ calls[c].outcome.kind = "fulfilled") =>
      calls[c].promise.state = "fulfilled"

(***************************************************************************)
(* Number and time of the callback's invocations                           *)
(***************************************************************************)
\* The invocations of the caller's callback so far
InvocationsOf(call) ==
  {i \in 1..Len(call.cbLog) : call.cbLog[i].fn = SuppliedCallback(call)}

\* C21: in every state of a call that was given a function as callback,
\* the callback has been invoked at most once, on the success path, on the
\* path of a transport failure and on the path of a missing parameter, a
\* callback that throws included.
C21_CallbackAtMostOnce ==
  \A c \in DOMAIN calls :
    (Started(calls[c]) /\ TypeOf(SuppliedCallback(calls[c])) = "function") =>
      Cardinality(InvocationsOf(calls[c])) <= 1

\* The positions of an event in the order of a call's events
PositionsOf(call, event) == {i \in 1..Len(call.trace) : call.trace[i] = event}

\* C22: every invocation of a callback comes after the return of the
\* method call it was passed to, on the path through handleError as on the
\* path through handleRequest.
C22_CallbackAfterReturn ==
  \A c \in DOMAIN calls :
    \A i \in PositionsOf(calls[c], "callback") :
      \E j \in PositionsOf(calls[c], "return") : j < i

====
